---- MODULE Spec2Model ----
(***************************************************************************)
(* Model of aten/src/ATen/native/sparse/SparseBinaryOpIntersectionCommon.h *)
(* : the set-intersection binary operation over sparse COO tensors.        *)
(*                                                                         *)
(* Integer widths are scaled down: int32_t / int is a signed Bits32-bit    *)
(* integer and int64_t a signed Bits64-bit integer, so that both sides of  *)
(* every width test of the code occur on small inputs.  All other program  *)
(* constants keep their value.  Arrays are TLA+ sequences (positions from  *)
(* 1); the indices the code stores in them are kept 0-based as in the      *)
(* code.                                                                   *)
(***************************************************************************)
EXTENDS Integers, Sequences, FiniteSets, TLC

\* ------------------------------------------------------------------ bounds

\* Largest nonzero count of the enumerated input tensors.
MaxNnz == 2
\* Modelled number of bits of int32_t and of int.
Bits32 == 8
\* Modelled number of bits of int64_t.
Bits64 == 16
\* A sparse dimension up to this size has all its coordinates enumerated;
\* a larger one only its first and last.
PoolDim == 3
\* Largest dimension size and rank of the shapes of the hash specification.
HashMaxDim == 3
HashMaxRank == 3
\* Largest array length and largest hash value of the search specification.
FindMaxLen == 4
FindMaxVal == 3

\* ------------------------------------------------------- program constants

MAX_COPIES_PER_THREAD == 50

\* ------------------------------------------------------------- arithmetic

IntMaxOf(bits) == 2^(bits - 1) - 1
IntMinOf(bits) == 0 - 2^(bits - 1)
Fits(v, bits) == IntMinOf(bits) <= v /\ v <= IntMaxOf(bits)
\* Conversion of v to a signed integer of the given width (two's complement).
Wrap(v, bits) == ((v + 2^(bits - 1)) % 2^bits) - 2^(bits - 1)
\* std::numeric_limits<int>::max()
Int32Max == IntMaxOf(Bits32)
Int64Max == IntMaxOf(Bits64)
\* C++ integer division truncates toward zero.
TruncDiv(a, b) ==
  IF (a >= 0) = (b > 0) THEN (IF a >= 0 THEN a \div b ELSE (0 - a) \div (0 - b))
  ELSE 0 - ((IF a >= 0 THEN a ELSE 0 - a) \div (IF b > 0 THEN b ELSE 0 - b))

Min(a, b) == IF a <= b THEN a ELSE b
Max(a, b) == IF a >= b THEN a ELSE b

RECURSIVE Prod(_)
Prod(s) == IF s = <<>> THEN 1 ELSE Head(s) * Prod(Tail(s))

\* The sum of s[lo..hi], by halving.
RECURSIVE SumRange(_, _, _)
SumRange(s, lo, hi) ==
  IF lo > hi THEN 0
  ELSE IF lo = hi THEN s[lo]
  ELSE SumRange(s, lo, (lo + hi) \div 2) + SumRange(s, ((lo + hi) \div 2) + 1, hi)

SumSeq(s) == SumRange(s, 1, Len(s))

Range(s) == {s[i] : i \in 1..Len(s)}

\* Strict lexicographic order on coordinates of equal length.
LexLess(a, b) ==
  \E d \in 1..Len(a) : a[d] < b[d] /\ \A e \in 1..(d - 1) : a[e] = b[e]

\* ---------------------------------------------------------------- tensors

\* A tensor: sizes is the full shape, the first sparse_dim entries of which
\* are indexed by the coordinate columns `indices`; values[k] is the value
\* row of nonzero k, flattened over the dense dimensions.
Nnz(t) == Len(t.indices)
SparseSizes(t) == SubSeq(t.sizes, 1, t.sparse_dim)
DenseSizes(t) == SubSeq(t.sizes, t.sparse_dim + 1, Len(t.sizes))

\* is_coalesced invariant: sorted ascending and pairwise distinct.
StrictlySorted(idx) == \A i \in 1..(Len(idx) - 1) : LexLess(idx[i], idx[i + 1])

DTypeBits(dt) == IF dt = "Char" THEN 8 ELSE 16
\* Conversion of a value to a dtype.
CastTo(v, dt) == IF dt = "Float" THEN v ELSE Wrap(v, DTypeBits(dt))
\* at::result_type: type promotion of the two value dtypes.
result_type(a, b) ==
  IF a = "Float" \/ b = "Float" THEN "Float"
  ELSE IF a = "Short" \/ b = "Short" THEN "Short" ELSE "Char"
\* c10::canCast: a floating type does not cast to an integral one.
canCast(from, to) == ~(from = "Float" /\ to # "Float")

RECURSIVE SortCoords(_)
SortCoords(S) ==
  IF S = {} THEN <<>>
  ELSE LET m == CHOOSE c \in S : \A d \in S : c = d \/ LexLess(c, d)
       IN <<m>> \o SortCoords(S \ {m})

\* The sum, in the tensor's dtype, of the value rows of coordinate c.
SumRowsAt(t, c) ==
  [e \in 1..Prod(DenseSizes(t)) |->
     CastTo(SumSeq([k \in 1..Nnz(t) |-> IF t.indices[k] = c THEN t.values[k][e] ELSE 0]),
            t.dtype)]

\* Tensor::coalesce(): coordinates sorted and made unique, the value rows of
\* equal coordinates summed; a coalesced tensor is returned as it is.
coalesce(t) ==
  IF t.coalesced THEN t
  ELSE LET sorted == SortCoords(Range(t.indices))
       IN [t EXCEPT !.indices = sorted,
                    !.values = [r \in 1..Len(sorted) |-> SumRowsAt(t, sorted[r])],
                    !.coalesced = TRUE]

\* contiguous_strides: row-major strides, a dimension of size 0 counted as 1.
contiguous_strides(sizes) ==
  [i \in 1..Len(sizes) |->
     Prod([j \in 1..(Len(sizes) - i) |-> Max(sizes[i + j], 1)])]

\* infer_size on shapes of equal rank: a dimension of size 1 broadcasts.
CanBroadcast(a, b) ==
  \A d \in 1..Len(a) : a[d] = b[d] \/ a[d] = 1 \/ b[d] = 1
infer_size(a, b) == [d \in 1..Len(a) |-> IF a[d] = 1 THEN b[d] ELSE a[d]]

\* The binary operator on two scalars.
ApplyOp(o, a, b) == IF o = "mul" THEN a * b ELSE a - b

\* binary_op_t::apply on two value rows: dense dimensions broadcast, the
\* result has the promoted dtype.
BroadcastRowLen(a, b) == IF Len(a) = 1 THEN Len(b) ELSE Len(a)
binary_op_apply(o, a, b, dt) ==
  [e \in 1..BroadcastRowLen(a, b) |->
     CastTo(ApplyOp(o, a[IF Len(a) = 1 THEN 1 ELSE e], b[IF Len(b) = 1 THEN 1 ELSE e]), dt)]

\* ------------------------------------------------------- the hash function

\* One iteration of the hashing loop, in hash_t arithmetic of `bits` bits.
HashStep(hash, coord, coeffs, dim, bits) ==
  Wrap(hash + Wrap(Wrap(coord[dim], bits) * coeffs[dim], bits), bits)

RECURSIVE HashLoop(_, _, _, _, _)
HashLoop(hash, coord, coeffs, dim, bits) ==
  IF dim > Len(coord) THEN hash
  ELSE HashLoop(HashStep(hash, coord, coeffs, dim, bits), coord, coeffs, dim + 1, bits)

HashOf(coord, coeffs, bits) == HashLoop(0, coord, coeffs, 1, bits)

\* max_hash_val of the width selector, multiplied up in int64_t.
RECURSIVE MaxHashVal(_, _)
MaxHashVal(shape, acc) ==
  IF shape = <<>> THEN acc ELSE MaxHashVal(Tail(shape), Wrap(acc * Head(shape), Bits64))

is_max_hash_32bits(shape) == MaxHashVal(shape, 1) <= Int32Max
is_max_offset_32bits(xnnz, ynnz) == Wrap(xnnz * ynnz, Bits64) <= Int32Max

\* Strides with the left-most dimension the fastest-changing one.
HashCoeffStridesColumnMajor(bshape, sdim) ==
  [i \in 1..sdim |-> Prod([j \in 1..(i - 1) |-> Max(bshape[j], 1)])]

\* hash_coeffs: the strides of the broadcasted sparse shape.
HashCoeffStrides(bshape, sdim) == contiguous_strides(SubSeq(bshape, 1, sdim))

\* -------------------------------------------------------------- find_bound

\* An upper-bound search that compares as the lower-bound search does.
FindBoundStepStrict(arr, value, is_lower, s) ==
  LET step == s.count \div 2
      it == s.first + step
  IN IF arr[it + 1] < value
     THEN [first |-> it + 1, count |-> s.count - (step + 1)]
     ELSE [first |-> s.first, count |-> step]

\* One iteration of the loop of find_bound on the sorted array arr; s holds
\* first (a 0-based position) and count.
FindBoundStep(arr, value, is_lower, s) ==
  LET step == s.count \div 2
      it == s.first + step
  IN IF (IF is_lower THEN arr[it + 1] < value ELSE value >= arr[it + 1])
     THEN [first |-> it + 1, count |-> s.count - (step + 1)]
     ELSE [first |-> s.first, count |-> step]

RECURSIVE FindBoundLoop(_, _, _, _)
FindBoundLoop(arr, value, is_lower, s) ==
  IF s.count > 0 THEN FindBoundLoop(arr, value, is_lower, FindBoundStep(arr, value, is_lower, s))
  ELSE s.first

find_bound(arr, value, is_lower) ==
  FindBoundLoop(arr, value, is_lower, [first |-> 0, count |-> Len(arr)])

\* ------------------------------------------------------------------ inputs

\* Coordinates enumerated for a sparse dimension of size n.
CoordPool(n) == IF n <= PoolDim THEN 0..(n - 1) ELSE {0, n - 1}

RECURSIVE Coords(_)
Coords(shape) ==
  IF shape = <<>> THEN {<<>>}
  ELSE {<<c>> \o t : c \in CoordPool(Head(shape)), t \in Coords(Tail(shape))}

\* Value rows are fixed by the side and the position, pairwise distinct on the
\* first positions so that an output value names the pair it comes from; one
\* of them makes the product leave the range of the narrowest dtype.
XBases == <<2, 100, 3>>
YBases == <<5, 7, 11>>
BaseValue(side, k) ==
  IF side = "x" THEN (IF k <= Len(XBases) THEN XBases[k] ELSE 1)
  ELSE (IF k <= Len(YBases) THEN YBases[k] ELSE 1)

MkSparse(sshape, dshape, idx, coal, dt, side) ==
  [is_sparse |-> TRUE, sizes |-> sshape \o dshape, sparse_dim |-> Len(sshape),
   dense_dim |-> Len(dshape), indices |-> idx,
   values |-> [k \in 1..Len(idx) |->
                 [e \in 1..Prod(dshape) |-> BaseValue(side, k) + e - 1]],
   coalesced |-> coal, dtype |-> dt]

\* A strided (dense) tensor, as far as the entry check looks at it.
MkDense(shape, dt) ==
  [is_sparse |-> FALSE, sizes |-> shape, sparse_dim |-> 0, dense_dim |-> Len(shape),
   indices |-> <<>>, values |-> <<>>, coalesced |-> FALSE, dtype |-> dt]

NoTensor == MkDense(<<>>, "none")

\* The sparse shapes of the calls: with and without a dimension of size 0,
\* of rank 0, 1 and 2, and with a product beyond the 32-bit hash range.
SparseShapes ==
  {<<>>, <<0>>, <<1>>, <<2>>, <<0, 2>>, <<2, 0>>, <<2, 2>>,
   <<Int32Max + 1>>, <<0, Int32Max + 1>>}

\* The coordinate columns and coalesced flag of an input: every column list of
\* up to MaxNnz columns; on the one-point shape also the list of
\* MAX_COPIES_PER_THREAD + 1 equal columns.
IndexChoices(s) ==
  {c \in {[idx |-> i, coalesced |-> f] :
            i \in UNION {[1..n -> Coords(s)] : n \in 0..MaxNnz}, f \in BOOLEAN} :
     c.coalesced => StrictlySorted(c.idx)}
  \cup (IF s = <<1>>
        THEN {[idx |-> [k \in 1..(MAX_COPIES_PER_THREAD + 1) |-> <<0>>], coalesced |-> FALSE]}
        ELSE {})

\* dtypes and dense shapes of the two inputs and the dtype of the result:
\* plain; promoted, broadcast and narrowed; not castable; not broadcastable.
Payloads ==
  {[xdt |-> "Char", xdense |-> <<>>, ydt |-> "Char", ydense |-> <<>>, rdt |-> "Char"],
   [xdt |-> "Char", xdense |-> <<1>>, ydt |-> "Short", ydense |-> <<2>>, rdt |-> "Char"],
   [xdt |-> "Float", xdense |-> <<>>, ydt |-> "Char", ydense |-> <<>>, rdt |-> "Char"],
   [xdt |-> "Char", xdense |-> <<2>>, ydt |-> "Char", ydense |-> <<3>>, rdt |-> "Char"]}

CallsOn(s, p) ==
  {[x |-> MkSparse(s, p.xdense, a.idx, a.coalesced, p.xdt, "x"),
    y |-> MkSparse(s, p.ydense, b.idx, b.coalesced, p.ydt, "y"),
    rdt |-> p.rdt] : a \in IndexChoices(s), b \in IndexChoices(s)}

\* Calls that break the entry check: a dense input, different ranks, different
\* numbers of sparse dimensions, different sparse shapes.
BadCalls ==
  {[x |-> MkDense(<<2>>, "Char"),
    y |-> MkSparse(<<2>>, <<>>, <<<<1>>>>, TRUE, "Char", "y"), rdt |-> "Char"],
   [x |-> MkSparse(<<2>>, <<>>, <<<<1>>>>, TRUE, "Char", "x"),
    y |-> MkSparse(<<2>>, <<2>>, <<<<1>>>>, TRUE, "Char", "y"), rdt |-> "Char"],
   [x |-> MkSparse(<<2>>, <<2>>, <<<<1>>>>, TRUE, "Char", "x"),
    y |-> MkSparse(<<2, 2>>, <<>>, <<<<1, 1>>>>, TRUE, "Char", "y"), rdt |-> "Char"],
   [x |-> MkSparse(<<2>>, <<>>, <<<<0>>>>, TRUE, "Char", "x"),
    y |-> MkSparse(<<1>>, <<>>, <<<<0>>>>, TRUE, "Char", "y"), rdt |-> "Char"]}

\* The operator and the is_commutative flag the caller passes with it.
OpModes ==
  {[op |-> "mul", is_commutative |-> TRUE], [op |-> "sub", is_commutative |-> FALSE]}

\* What the result tensor holds before the call.
PriorRes(dt) == MkSparse(<<1>>, <<>>, <<<<0>>>>, TRUE, dt, "y")

\* Content of a slot of an at::empty buffer that has not been written.
Uninit == 0 - 1

\* ------------------------------------------------------------------- state

VARIABLES
  x, y, op, is_commutative,        \* the arguments of the current call
  res,                             \* the result tensor
  pc,                              \* the stage the call has reached
  run, first_call,                 \* 1 or 2: the caller's second, swapped call
  broadcasted_shape, hash_bits, offset_bits,
  probably_coalesced, source, probe_is_x,
  hash_coeffs, probably_coalesced_indices_hash, sorted_hash, argsort_hash,
  intersection_count, intersection_first_idx,
  shifted_offset, intersection_nnz,
  selected_source, selected_probably_coalesced, selected_source_sparse_indices,
  task_i,                          \* per gather task: inner iterations done
  writes,                          \* the slots the gather tasks have written
  hs,                              \* state of the hash specification
  fb                               \* state of the search specification

call_vars == <<x, y, op, is_commutative, run, first_call>>
width_vars == <<broadcasted_shape, hash_bits, offset_bits>>
role_vars == <<probably_coalesced, source, probe_is_x>>
hash_vars == <<hash_coeffs, probably_coalesced_indices_hash, sorted_hash, argsort_hash>>
join_vars == <<intersection_count, intersection_first_idx>>
plan_vars == <<shifted_offset, intersection_nnz>>
gather_vars ==
  <<selected_source, selected_probably_coalesced, selected_source_sparse_indices,
    task_i, writes>>
aux_vars == <<hs, fb>>
vars ==
  <<call_vars, res, pc, width_vars, role_vars, hash_vars, join_vars, plan_vars,
    gather_vars, aux_vars>>

\* The intermediate buffers before any stage has run.
NoIntermediates ==
  /\ broadcasted_shape = <<>> /\ hash_bits = 0 /\ offset_bits = 0
  /\ probably_coalesced = NoTensor /\ source = NoTensor /\ probe_is_x = FALSE
  /\ hash_coeffs = <<>> /\ probably_coalesced_indices_hash = <<>>
  /\ sorted_hash = <<>> /\ argsort_hash = <<>>
  /\ intersection_count = <<>> /\ intersection_first_idx = <<>>
  /\ shifted_offset = <<>> /\ intersection_nnz = 0
  /\ selected_source = <<>> /\ selected_probably_coalesced = <<>>
  /\ selected_source_sparse_indices = <<>>
  /\ task_i = <<>> /\ writes = {}

ResetIntermediates ==
  /\ broadcasted_shape' = <<>> /\ hash_bits' = 0 /\ offset_bits' = 0
  /\ probably_coalesced' = NoTensor /\ source' = NoTensor /\ probe_is_x' = FALSE
  /\ hash_coeffs' = <<>> /\ probably_coalesced_indices_hash' = <<>>
  /\ sorted_hash' = <<>> /\ argsort_hash' = <<>>
  /\ intersection_count' = <<>> /\ intersection_first_idx' = <<>>
  /\ shifted_offset' = <<>> /\ intersection_nnz' = 0
  /\ selected_source' = <<>> /\ selected_probably_coalesced' = <<>>
  /\ selected_source_sparse_indices' = <<>>
  /\ task_i' = <<>> /\ writes' = {}

NoFirstCall == [done |-> FALSE, indices |-> <<>>, values |-> <<>>, eager |-> FALSE]
HashIdle == [stage |-> "idle"]
FindIdle == [stage |-> "idle"]

Init ==
  /\ \E s \in SparseShapes, p \in Payloads : \E c \in CallsOn(s, p) \cup BadCalls :
       /\ x = c.x /\ y = c.y /\ res = PriorRes(c.rdt)
  /\ \E m \in OpModes : op = m.op /\ is_commutative = m.is_commutative
  /\ pc = "call" /\ run = 1 /\ first_call = NoFirstCall
  /\ NoIntermediates
  /\ hs = HashIdle /\ fb = FindIdle

\* ------------------------------------------------- the entry (lines 487-540)

\* The TORCH_CHECK of _sparse_binary_op_intersection_kernel_out.
EntryCheck(a, b) ==
  /\ a.is_sparse /\ b.is_sparse
  /\ Len(a.sizes) = Len(b.sizes)
  /\ a.sparse_dim = b.sparse_dim
  /\ SparseSizes(a) = SparseSizes(b)

\* _sparse_binary_op_intersection_kernel_out: the check, infer_size, and the
\* choice of hash_t and offset_t.
KernelOut ==
  /\ pc = "call"
  /\ IF EntryCheck(x, y) /\ CanBroadcast(x.sizes, y.sizes)
     THEN /\ broadcasted_shape' = infer_size(x.sizes, y.sizes)
          /\ hash_bits' =
               IF is_max_hash_32bits(SubSeq(infer_size(x.sizes, y.sizes), 1, x.sparse_dim))
               THEN Bits32 ELSE Bits64
          /\ offset_bits' = IF is_max_offset_32bits(Nnz(x), Nnz(y)) THEN Bits32 ELSE Bits64
          /\ pc' = "impl"
     ELSE /\ pc' = "error"
          /\ UNCHANGED width_vars
  /\ UNCHANGED <<call_vars, res, role_vars, hash_vars, join_vars, plan_vars,
                 gather_vars, aux_vars>>

\* ------------------------------------------ the dtype check (lines 87-90)

\* A dtype check that lets every call through.
CastCheckNoRaise ==
  /\ pc = "impl"
  /\ pc' = "roles"
  /\ UNCHANGED <<call_vars, res, width_vars, role_vars, hash_vars, join_vars,
                 plan_vars, gather_vars, aux_vars>>

CastCheck ==
  /\ pc = "impl"
  /\ pc' = IF canCast(result_type(x.dtype, y.dtype), res.dtype) THEN "roles" ELSE "error"
  /\ UNCHANGED <<call_vars, res, width_vars, role_vars, hash_vars, join_vars,
                 plan_vars, gather_vars, aux_vars>>

\* ------------------------------------------ the role selector (lines 94-143)

\* std::accumulate(begin, begin + sparse_dim, 1, multiplies<int64_t>()): the
\* accumulator has the type of the initial value 1, an int.
RECURSIVE AccumulateInt(_, _)
AccumulateInt(sizes, acc) ==
  IF sizes = <<>> THEN acc
  ELSE AccumulateInt(Tail(sizes), Wrap(Wrap(acc * Head(sizes), Bits64), Bits32))

\* An x that is flagged coalesced without being coalesced.
XUsedFlaggedOnly == IF is_commutative THEN x ELSE [x EXCEPT !.coalesced = TRUE]

\* x and y of the implementation: coalesced when the operator is not commutative.
XUsed == IF is_commutative THEN x ELSE coalesce(x)
YUsed == IF is_commutative THEN y ELSE coalesce(y)

OneCoalesced(a, b) == a.coalesced # b.coalesced
XIsLarger(a, b) == Nnz(a) >= Nnz(b)
LargerOf(a, b) == IF XIsLarger(a, b) THEN a ELSE b
SmallerOf(a, b) == IF XIsLarger(a, b) THEN b ELSE a
sparse_dim_numel(a, b) == AccumulateInt(SparseSizes(LargerOf(a, b)), 1)

\* The pair (probably_coalesced, source), given max_count_lower_bound.
SelectRoles(a, b, max_count_lower_bound) ==
  IF OneCoalesced(a, b)
  THEN (IF a.coalesced THEN [probe |-> a, source |-> b, probe_is_x |-> TRUE]
        ELSE [probe |-> b, source |-> a, probe_is_x |-> FALSE])
  ELSE [probe |-> IF max_count_lower_bound > MAX_COPIES_PER_THREAD
                  THEN coalesce(LargerOf(a, b)) ELSE LargerOf(a, b),
        source |-> SmallerOf(a, b),
        probe_is_x |-> XIsLarger(a, b)]

SetRoles(r) ==
  /\ probably_coalesced' = r.probe
  /\ source' = r.source
  /\ probe_is_x' = r.probe_is_x
  /\ pc' = "hash_coeffs"

RoleSelect ==
  /\ pc = "roles"
  /\ OneCoalesced(XUsed, YUsed) \/ sparse_dim_numel(XUsed, YUsed) # 0
  /\ SetRoles(SelectRoles(XUsed, YUsed,
       IF OneCoalesced(XUsed, YUsed) THEN 0
       ELSE TruncDiv(Nnz(LargerOf(XUsed, YUsed)), sparse_dim_numel(XUsed, YUsed))))
  /\ UNCHANGED <<call_vars, res, width_vars, hash_vars, join_vars, plan_vars,
                 gather_vars, aux_vars>>

\* larger._nnz() / sparse_dim_numel with sparse_dim_numel = 0: an integer
\* division by zero, undefined behaviour.  The build either traps or yields
\* some quotient, below or above the threshold.
RoleSelectDivZero ==
  /\ pc = "roles"
  /\ ~OneCoalesced(XUsed, YUsed) /\ sparse_dim_numel(XUsed, YUsed) = 0
  /\ \E outcome \in {"trap", "small", "large"} :
       IF outcome = "trap"
       THEN pc' = "fault" /\ UNCHANGED role_vars
       ELSE SetRoles(SelectRoles(XUsed, YUsed,
              IF outcome = "small" THEN 0 ELSE MAX_COPIES_PER_THREAD + 1))
  /\ UNCHANGED <<call_vars, res, width_vars, hash_vars, join_vars, plan_vars,
                 gather_vars, aux_vars>>

\* ------------------------------------------- the hash builder (lines 156-173)

\* hash_coeffs[i] = strides[i] converts an int64_t stride to hash_t.  A stride
\* that hash_t cannot hold either makes the conversion raise or is stored
\* truncated.
HashCoeffs ==
  /\ pc = "hash_coeffs"
  /\ LET strides == HashCoeffStrides(broadcasted_shape, probably_coalesced.sparse_dim)
     IN \E outcome \in (IF \A i \in 1..Len(strides) : Fits(strides[i], hash_bits)
                        THEN {"stored"} ELSE {"raise", "truncated"}) :
          IF outcome = "raise"
          THEN pc' = "error" /\ UNCHANGED hash_coeffs
          ELSE /\ hash_coeffs' = [i \in 1..Len(strides) |-> Wrap(strides[i], hash_bits)]
               /\ pc' = "hash"
  /\ UNCHANGED <<probably_coalesced_indices_hash, sorted_hash, argsort_hash>>
  /\ UNCHANGED <<call_vars, res, width_vars, role_vars, join_vars, plan_vars,
                 gather_vars, aux_vars>>

\* -------------------------------------------- the hash mapper (lines 186-227)

HashProbe ==
  /\ pc = "hash"
  /\ probably_coalesced_indices_hash' =
       [k \in 1..Nnz(probably_coalesced) |->
          HashOf(probably_coalesced.indices[k], hash_coeffs, hash_bits)]
  /\ pc' = "sort"
  /\ UNCHANGED <<hash_coeffs, sorted_hash, argsort_hash>>
  /\ UNCHANGED <<call_vars, res, width_vars, role_vars, join_vars, plan_vars,
                 gather_vars, aux_vars>>

\* --------------------------------------------- the sort stage (lines 232-248)

\* The permutation of a stable sort of h, 0-based.
StableArgsort(h) ==
  LET rank(k) ==
        Cardinality({j \in 1..Len(h) : h[j] < h[k] \/ (h[j] = h[k] /\ j < k)})
  IN [pos \in 1..Len(h) |-> (CHOOSE k \in 1..Len(h) : rank(k) = pos - 1) - 1]

\* The permutations Tensor::sort() may return: any that sorts h (the sort is
\* not stable).  Beyond MaxNnz elements only the stable one is followed.
ArgsortChoices(h) ==
  IF Len(h) > MaxNnz THEN {StableArgsort(h)}
  ELSE {p \in [1..Len(h) -> 0..(Len(h) - 1)] :
          /\ \A i, j \in 1..Len(h) : i # j => p[i] # p[j]
          /\ \A i \in 1..(Len(h) - 1) : h[p[i] + 1] <= h[p[i + 1] + 1]}

SortStage ==
  /\ pc = "sort"
  /\ IF probably_coalesced.coalesced
     THEN /\ sorted_hash' = probably_coalesced_indices_hash
          /\ argsort_hash' = [k \in 1..Nnz(probably_coalesced) |-> k - 1]
     ELSE \E p \in ArgsortChoices(probably_coalesced_indices_hash) :
            /\ argsort_hash' = p
            /\ sorted_hash' =
                 [k \in 1..Len(p) |-> probably_coalesced_indices_hash[p[k] + 1]]
  /\ pc' = "join"
  /\ UNCHANGED <<hash_coeffs, probably_coalesced_indices_hash>>
  /\ UNCHANGED <<call_vars, res, width_vars, role_vars, join_vars, plan_vars,
                 gather_vars, aux_vars>>

\* -------------------------------------------- the join engine (lines 261-332)

\* The kernel of one source nonzero (0-based nnz_idx): its hash, the two
\* bounds, and what is stored in the hash_t buffers.
\* A join that reports a match only once, whatever the length of the range.
JoinTaskSingleMatch(nnz_idx) ==
  LET hash == HashOf(source.indices[nnz_idx + 1], hash_coeffs, hash_bits)
      lb == find_bound(sorted_hash, hash, TRUE)
      ub == find_bound(sorted_hash, hash, FALSE)
  IN [count |-> IF ub > lb THEN 1 ELSE 0, first_idx |-> Wrap(lb, hash_bits)]

JoinTask(nnz_idx) ==
  LET hash == HashOf(source.indices[nnz_idx + 1], hash_coeffs, hash_bits)
      lb == find_bound(sorted_hash, hash, TRUE)
      ub == find_bound(sorted_hash, hash, FALSE)
  IN [count |-> Wrap(ub - lb, hash_bits), first_idx |-> Wrap(lb, hash_bits)]

Join ==
  /\ pc = "join"
  /\ intersection_count' = [k \in 1..Nnz(source) |-> JoinTask(k - 1).count]
  /\ intersection_first_idx' = [k \in 1..Nnz(source) |-> JoinTask(k - 1).first_idx]
  /\ pc' = "plan"
  /\ UNCHANGED <<call_vars, res, width_vars, role_vars, hash_vars, plan_vars,
                 gather_vars, aux_vars>>

\* ------------------------------------- the compaction planner (lines 346-368)

\* intersection_count.cumsum(-1, kOffset): inclusive, in offset_t.
cumsum(counts, bits) ==
  [k \in 1..Len(counts) |-> Wrap(SumSeq(SubSeq(counts, 1, k)), bits)]

IntersectionNnz(offsets) == IF Len(offsets) > 0 THEN offsets[Len(offsets)] ELSE 0

\* The prefix sum, the read-back of the result's nonzero count and the
\* allocation of the output buffers; at::empty raises on a negative size.
Plan ==
  /\ pc = "plan"
  /\ shifted_offset' = cumsum(intersection_count, offset_bits)
  /\ intersection_nnz' = IntersectionNnz(shifted_offset')
  /\ IF intersection_nnz' < 0
     THEN /\ pc' = "error"
          /\ UNCHANGED gather_vars
     ELSE /\ selected_source' = [s \in 1..intersection_nnz' |-> Uninit]
          /\ selected_probably_coalesced' = [s \in 1..intersection_nnz' |-> Uninit]
          /\ selected_source_sparse_indices' = [s \in 1..intersection_nnz' |-> <<Uninit>>]
          /\ task_i' = [k \in 1..Nnz(source) |-> 0]
          /\ writes' = {}
          /\ pc' = "scatter"
  /\ UNCHANGED <<call_vars, res, width_vars, role_vars, hash_vars, join_vars, aux_vars>>

\* --------------------------------------- the gather/scatter stage (404-446)

\* The first output slot (0-based) of the task of source nonzero idx.
\* A task offset that forgets to step back by the task's count.
TaskOffsetInclusive(idx) == shifted_offset[idx + 1]

TaskOffset(idx) ==
  Wrap(shifted_offset[idx + 1] - Wrap(intersection_count[idx + 1], offset_bits),
       offset_bits)

TaskFinished(idx) == task_i[idx + 1] >= intersection_count[idx + 1]

\* One iteration of the inner loop of the task of source nonzero idx: it
\* writes slot offset + i of the three output buffers.  The tasks of a source
\* of up to MaxNnz nonzeros interleave freely; those of a larger source run
\* in index order.  A write outside the buffers is recorded, not performed.
ScatterStep(idx) ==
  /\ pc = "scatter"
  /\ ~TaskFinished(idx)
  /\ Nnz(source) > MaxNnz => \A j \in 0..(idx - 1) : TaskFinished(j)
  /\ LET i == task_i[idx + 1]
         slot == TaskOffset(idx) + i
         from == intersection_first_idx[idx + 1] + i
         probe_idx == IF from >= 0 /\ from < Len(argsort_hash)
                      THEN argsort_hash[from + 1] ELSE Uninit
     IN /\ writes' = writes \cup {[task |-> idx, slot |-> slot]}
        /\ task_i' = [task_i EXCEPT ![idx + 1] = i + 1]
        /\ IF slot >= 0 /\ slot < Len(selected_source)
           THEN /\ selected_source' =
                     [selected_source EXCEPT ![slot + 1] = Wrap(idx, hash_bits)]
                /\ selected_probably_coalesced' =
                     [selected_probably_coalesced EXCEPT
                        ![slot + 1] = Wrap(probe_idx, hash_bits)]
                /\ selected_source_sparse_indices' =
                     [selected_source_sparse_indices EXCEPT
                        ![slot + 1] = source.indices[idx + 1]]
           ELSE UNCHANGED <<selected_source, selected_probably_coalesced,
                            selected_source_sparse_indices>>
  /\ UNCHANGED <<call_vars, res, pc, width_vars, role_vars, hash_vars, join_vars,
                 plan_vars, aux_vars>>

Scatter == \E idx \in 0..(Nnz(source) - 1) : ScatterStep(idx)

\* ----------------------------------------- the result assembler (452-481)

ValidIndex(i, n) == i >= 0 /\ i < n

\* A gather that reads the probe's values through the source's index buffer.
ResValuesWrongGather ==
  [r \in 1..Len(selected_source) |->
     LET v == binary_op_apply(op,
                source.values[selected_source[r] + 1],
                probably_coalesced.values[
                  Min(selected_source[r] + 1, Nnz(probably_coalesced))],
                result_type(source.dtype, probably_coalesced.dtype))
     IN [e \in 1..Len(v) |-> CastTo(v[e], res.dtype)]]

\* res_values: the gathered value rows, the operator, the cast to res's dtype.
ResValues ==
  [r \in 1..Len(selected_source) |->
     LET v == binary_op_apply(op,
                source.values[selected_source[r] + 1],
                probably_coalesced.values[selected_probably_coalesced[r] + 1],
                result_type(source.dtype, probably_coalesced.dtype))
     IN [e \in 1..Len(v) |-> CastTo(v[e], res.dtype)]]

\* res_values.dim(): one more than the broadcast dense rank.
ResValuesDim ==
  1 + Len(infer_size(DenseSizes(source), DenseSizes(probably_coalesced)))

\* A flag taken from the probe alone.
ResCoalescedProbeOnly == probably_coalesced.coalesced

\* The coalesced flag given to the result (line 481).
ResCoalesced == source.coalesced /\ probably_coalesced.coalesced

\* Runs once every gather task has finished.  index_select raises on an index
\* outside its input.
Assemble ==
  /\ pc = "scatter"
  /\ \A idx \in 0..(Nnz(source) - 1) : TaskFinished(idx)
  /\ IF \A r \in 1..Len(selected_source) :
          /\ ValidIndex(selected_source[r], Nnz(source))
          /\ ValidIndex(selected_probably_coalesced[r], Nnz(probably_coalesced))
     THEN /\ res' = [is_sparse |-> TRUE,
                     sizes |-> broadcasted_shape,
                     sparse_dim |-> source.sparse_dim,
                     dense_dim |-> ResValuesDim - 1,
                     indices |-> selected_source_sparse_indices,
                     values |-> ResValues,
                     coalesced |-> ResCoalesced,
                     dtype |-> res.dtype]
          /\ pc' = "done"
     ELSE /\ pc' = "error"
          /\ UNCHANGED res
  /\ UNCHANGED <<call_vars, width_vars, role_vars, hash_vars, join_vars, plan_vars,
                 gather_vars, aux_vars>>

\* ------------------------------------------------------------- the caller

\* Whether this call coalesced its candidate probe eagerly (line 140).
EagerlyCoalesced ==
  probably_coalesced.coalesced /\ ~(IF probe_is_x THEN XUsed ELSE YUsed).coalesced

\* The caller of a commutative operator calls again with the arguments
\* swapped, keeping the rows of the first result.
CallSwapped ==
  /\ pc = "done" /\ run = 1 /\ is_commutative
  /\ first_call' = [done |-> TRUE, indices |-> res.indices, values |-> res.values,
                    eager |-> EagerlyCoalesced]
  /\ x' = y /\ y' = x /\ run' = 2
  /\ res' = PriorRes(res.dtype)
  /\ pc' = "call"
  /\ ResetIntermediates
  /\ UNCHANGED <<op, is_commutative, aux_vars>>

Next ==
  \/ KernelOut
  \/ CastCheck
  \/ RoleSelect
  \/ RoleSelectDivZero
  \/ HashCoeffs
  \/ HashProbe
  \/ SortStage
  \/ Join
  \/ Plan
  \/ Scatter
  \/ Assemble
  \/ CallSwapped

Spec == Init /\ [][Next]_vars

\* ------------------------------------------------------ claims: vocabulary

Count(seq, e) == Cardinality({i \in 1..Len(seq) : seq[i] = e})

\* The tensors the join ran on, by the argument they come from.
JoinedX == IF probe_is_x THEN probably_coalesced ELSE source
JoinedY == IF probe_is_x THEN source ELSE probably_coalesced

\* The call passes the entry check, infer_size and the dtype check.
CallAccepted ==
  /\ EntryCheck(x, y) /\ CanBroadcast(x.sizes, y.sizes)
  /\ canCast(result_type(x.dtype, y.dtype), res.dtype)

Terminated == pc \in {"done", "error", "fault"}

SomeCoords == Range(x.indices) \cup Range(y.indices) \cup Range(res.indices)

\* Rows (coordinate, value row) of a result, and equality as multisets.
Rows(idx, vals) == [r \in 1..Len(idx) |-> <<idx[r], vals[r]>>]
SameBag(a, b) ==
  /\ Len(a) = Len(b)
  /\ \A e \in Range(a) \cup Range(b) : Count(a, e) = Count(b, e)

CastRow(v, dt) == [e \in 1..Len(v) |-> CastTo(v[e], dt)]

\* ------------------------------------------------------------------ C1

JoinedCount(arg, joined, c) ==
  IF joined.coalesced /\ ~arg.coalesced THEN Min(Count(arg.indices, c), 1)
  ELSE Count(arg.indices, c)

C2_OperandOrder ==
  pc = "done" =>
    \A r \in 1..Nnz(res) :
      \E i \in 1..Nnz(JoinedX), j \in 1..Nnz(JoinedY) :
        /\ JoinedX.indices[i] = res.indices[r]
        /\ JoinedY.indices[j] = res.indices[r]
        /\ res.values[r] =
             CastRow(binary_op_apply(op, JoinedX.values[i], JoinedY.values[j],
                                     result_type(x.dtype, y.dtype)), res.dtype)

\* ------------------------------------------------------------------ C3

\* C3 (as stated): the result is flagged coalesced iff both arguments, as
\* passed, are flagged coalesced.
C3_CoalescedFlag_Original ==
  pc = "done" => (res.coalesced <=> (x.coalesced /\ y.coalesced))

\* C3 (amended): the result is flagged coalesced iff the operator is not
\* commutative (both arguments are then coalesced first) or both arguments, as
\* passed, are flagged coalesced.
C3_CoalescedFlag ==
  pc = "done" => (res.coalesced <=> (~is_commutative \/ (x.coalesced /\ y.coalesced)))

C3_Witness ==
  /\ pc = "done" /\ ~is_commutative /\ ~x.coalesced /\ Nnz(x) = 2 /\ res.coalesced

\* ------------------------------------------------------------------ C4

\* C4 (as stated): for a commutative operator the calls (x, y) and (y, x)
\* produce the same multiset of rows.
C4_Swap_Original ==
  (pc = "done" /\ run = 2) =>
    SameBag(Rows(res.indices, res.values), Rows(first_call.indices, first_call.values))

\* C4 (amended): the two calls produce the same multiset of rows unless x and y
\* have equal nonzero counts and a call coalesces its candidate probe eagerly
\* (each call then coalesces its own first argument).
C4_Swap ==
  (pc = "done" /\ run = 2
     /\ ~(Nnz(x) = Nnz(y) /\ (first_call.eager \/ EagerlyCoalesced))) =>
    SameBag(Rows(res.indices, res.values), Rows(first_call.indices, first_call.values))

\* A tie in the nonzero counts with exactly one argument coalesced, and rows.
C4_Witness ==
  /\ pc = "done" /\ run = 2 /\ Nnz(x) = Nnz(y) /\ Nnz(x) = 2
  /\ x.coalesced /\ ~y.coalesced /\ Nnz(res) = 2

\* ------------------------------------------------------------------ C5

NoSharedCoordinate == Range(x.indices) \cap Range(y.indices) = {}

\* C5: an accepted call on arguments that share no coordinate completes, with
\* an empty result of the broadcast shape.
C5_EmptyIntersection ==
  (CallAccepted /\ NoSharedCoordinate /\ Terminated) =>
    /\ pc = "done"
    /\ Nnz(res) = 0 /\ res.values = <<>>
    /\ res.sizes = infer_size(x.sizes, y.sizes)
    /\ res.sparse_dim = x.sparse_dim
    /\ res.dense_dim = ResValuesDim - 1
    /\ res.sparse_dim + res.dense_dim = Len(res.sizes)

\* ------------------------------------------------------------------ C6

NoStageHasRun ==
  /\ probably_coalesced = NoTensor /\ source = NoTensor
  /\ hash_coeffs = <<>> /\ probably_coalesced_indices_hash = <<>>
  /\ sorted_hash = <<>> /\ argsort_hash = <<>>
  /\ intersection_count = <<>> /\ intersection_first_idx = <<>>
  /\ shifted_offset = <<>> /\ selected_source = <<>> /\ writes = {}

\* C6: a call the entry check or the dtype check rejects raises before any
\* stage has run; the result tensor keeps its prior content until the result
\* assembler has run.
C6_Atomic ==
  /\ pc # "done" => res = PriorRes(res.dtype)
  /\ ~CallAccepted => (pc \in {"call", "impl", "error"} /\ NoStageHasRun)
  /\ (pc = "done" /\ Nnz(source) > 0) =>
       (probably_coalesced # NoTensor /\ Len(intersection_count) = Nnz(source)
        /\ \A idx \in 0..(Nnz(source) - 1) : TaskFinished(idx))

C6_Witness ==
  /\ pc = "error" /\ EntryCheck(x, y)
  /\ ~canCast(result_type(x.dtype, y.dtype), res.dtype)
  /\ Nnz(x) = 2 /\ ~x.coalesced /\ ~is_commutative

\* ------------------------------------------------------------------ C10

TaskRange(idx) ==
  {s \in 0..(intersection_nnz - 1) :
     /\ shifted_offset[idx + 1] - intersection_count[idx + 1] <= s
     /\ s < shifted_offset[idx + 1]}

SlotsWrittenBy(idx) == {w.slot : w \in {v \in writes : v.task = idx}}

IdleProgram ==
  /\ x = NoTensor /\ y = NoTensor /\ res = NoTensor
  /\ op = "mul" /\ is_commutative = TRUE
  /\ pc = "idle" /\ run = 1 /\ first_call = NoFirstCall
  /\ NoIntermediates

HashDims == (0..HashMaxDim) \cup {Int32Max + 1}

RECURSIVE ShapesOfRank(_)
ShapesOfRank(n) ==
  IF n = 0 THEN {<<>>}
  ELSE {<<d>> \o t : d \in HashDims, t \in ShapesOfRank(n - 1)}

\* The product of the sizes of a shape, a size 0 counted as 1, multiplied up
\* no further than beyond cap.
RECURSIVE CappedNumel(_, _)
CappedNumel(shape, cap) ==
  IF shape = <<>> THEN 1
  ELSE LET rest == CappedNumel(Tail(shape), cap)
       IN IF rest > cap THEN rest ELSE Max(Head(shape), 1) * rest

\* Shapes whose strides are representable in int64_t.
HashShapes ==
  {sh \in UNION {ShapesOfRank(n) : n \in 0..HashMaxRank} :
     CappedNumel(sh, Int64Max) <= Int64Max}

\* The coordinates within a shape: none when a dimension has size 0.
CoordsWithin(shape) ==
  IF \E i \in 1..Len(shape) : shape[i] = 0 THEN {} ELSE Coords(shape)

InitHash ==
  /\ IdleProgram /\ fb = FindIdle
  /\ \E sh \in HashShapes :
       hs = [stage |-> "start", shape |-> sh, bits |-> 0, coeffs |-> <<>>, dim |-> 0,
             hash |-> [c \in CoordsWithin(sh) |-> 0], fits |-> TRUE]

\* The choice of hash_t (lines 502-508 and 516-539).
HashSelectWidth ==
  /\ hs.stage = "start"
  /\ hs' = [hs EXCEPT !.stage = "coeffs",
                      !.bits = IF is_max_hash_32bits(hs.shape)
                               THEN Bits32 ELSE Bits64]
  /\ UNCHANGED <<call_vars, res, pc, width_vars, role_vars, hash_vars, join_vars,
                 plan_vars, gather_vars, fb>>

\* Lines 157-173, as HashCoeffs.
HashBuildCoeffs ==
  /\ hs.stage = "coeffs"
  /\ LET strides == HashCoeffStrides(hs.shape, Len(hs.shape))
     IN \E outcome \in (IF \A i \in 1..Len(strides) : Fits(strides[i], hs.bits)
                        THEN {"stored"} ELSE {"raise", "truncated"}) :
          IF outcome = "raise"
          THEN hs' = [hs EXCEPT !.stage = "raised"]
          ELSE hs' = [hs EXCEPT !.stage = "hash",
                        !.coeffs = [i \in 1..Len(strides) |-> Wrap(strides[i], hs.bits)]]
  /\ UNCHANGED <<call_vars, res, pc, width_vars, role_vars, hash_vars, join_vars,
                 plan_vars, gather_vars, fb>>

\* One iteration of the loop of lines 213-222, on every coordinate; fits
\* records that no product and no partial sum has left hash_t.
HashIterate ==
  /\ hs.stage = "hash" /\ hs.dim < Len(hs.shape)
  /\ LET dim == hs.dim + 1
     IN hs' = [hs EXCEPT
                 !.dim = dim,
                 !.hash = [c \in DOMAIN hs.hash |->
                             HashStep(hs.hash[c], c, hs.coeffs, dim, hs.bits)],
                 !.fits = /\ hs.fits
                          /\ \A c \in DOMAIN hs.hash :
                               /\ Fits(c[dim], hs.bits)
                               /\ Fits(c[dim] * hs.coeffs[dim], hs.bits)
                               /\ Fits(hs.hash[c] + c[dim] * hs.coeffs[dim], hs.bits)]
  /\ UNCHANGED <<call_vars, res, pc, width_vars, role_vars, hash_vars, join_vars,
                 plan_vars, gather_vars, fb>>

HashReturn ==
  /\ hs.stage = "hash" /\ hs.dim = Len(hs.shape)
  /\ hs' = [hs EXCEPT !.stage = "done"]
  /\ UNCHANGED <<call_vars, res, pc, width_vars, role_vars, hash_vars, join_vars,
                 plan_vars, gather_vars, fb>>

NextHash == HashSelectWidth \/ HashBuildCoeffs \/ HashIterate \/ HashReturn

SpecHash == InitHash /\ [][NextHash]_vars

\* ------------------------------------------------------------------ C7

\* C7: on coordinates within the broadcast sparse shape the hash is strictly
\* order-preserving for the lexicographic order, and so never collides.
C7_PerfectHash ==
  hs.stage = "done" =>
    \A a \in DOMAIN hs.hash, b \in DOMAIN hs.hash :
      /\ LexLess(a, b) <=> hs.hash[a] < hs.hash[b]
      /\ (a = b) <=> hs.hash[a] = hs.hash[b]
      /\ hs.hash[a] = HashOf(a, hs.coeffs, hs.bits)

\* A three-dimensional shape on which the leading and the trailing dimension
\* disagree about the order of two coordinates.
C7_Witness ==
  /\ hs.stage = "done" /\ Len(hs.shape) = 3
  /\ \E a \in DOMAIN hs.hash, b \in DOMAIN hs.hash :
       a[1] < b[1] /\ a[3] > b[3] /\ hs.hash[a] < hs.hash[b]

\* ------------------------------------------------------------------ C8

\* C8: every coefficient, every per-dimension product and every partial sum of
\* the hash computation fits in the width the width selector chose.
C8_NoOverflow ==
  hs.stage \in {"raised", "hash", "done"} =>
    /\ \A i \in 1..Len(hs.shape) :
         Fits(HashCoeffStrides(hs.shape, Len(hs.shape))[i], hs.bits)
    /\ hs.fits

\* ---------------------------------------------- the search specification
\* find_bound, one loop iteration at a time: the lower bound, then the upper
\* bound of a value in a sorted array, as the join kernel calls it.

\* The arrays of length n sorted ascending, as the sort stage leaves them.
SortedArrays(n) ==
  {arr \in [1..n -> 1..FindMaxVal] : \A i \in 1..(n - 1) : arr[i] <= arr[i + 1]}

InitFind ==
  /\ IdleProgram /\ hs = HashIdle
  /\ \E n \in 0..FindMaxLen :
       \E arr \in SortedArrays(n), value \in 0..(FindMaxVal + 1) :
         fb = [stage |-> "lower", arr |-> arr, value |-> value,
               first |-> 0, count |-> Len(arr), lb |-> 0, ub |-> 0]

\* One iteration of the while loop (lines 45-59).
FindIterate ==
  /\ fb.stage \in {"lower", "upper"} /\ fb.count > 0
  /\ LET s == FindBoundStep(fb.arr, fb.value, fb.stage = "lower",
                            [first |-> fb.first, count |-> fb.count])
     IN fb' = [fb EXCEPT !.first = s.first, !.count = s.count]
  /\ UNCHANGED <<call_vars, res, pc, width_vars, role_vars, hash_vars, join_vars,
                 plan_vars, gather_vars, hs>>

\* The lower-bound search returns; the upper-bound search starts.
FindLowerReturn ==
  /\ fb.stage = "lower" /\ fb.count <= 0
  /\ fb' = [fb EXCEPT !.stage = "upper", !.lb = fb.first,
                      !.first = 0, !.count = Len(fb.arr)]
  /\ UNCHANGED <<call_vars, res, pc, width_vars, role_vars, hash_vars, join_vars,
                 plan_vars, gather_vars, hs>>

FindUpperReturn ==
  /\ fb.stage = "upper" /\ fb.count <= 0
  /\ fb' = [fb EXCEPT !.stage = "done", !.ub = fb.first]
  /\ UNCHANGED <<call_vars, res, pc, width_vars, role_vars, hash_vars, join_vars,
                 plan_vars, gather_vars, hs>>

NextFind == FindIterate \/ FindLowerReturn \/ FindUpperReturn

SpecFind == InitFind /\ [][NextFind]_vars

\* The loop runs sequentially to its end.
SpecFindFair == SpecFind /\ WF_vars(NextFind)

\* ------------------------------------------------------------------ C9

FindInBounds ==
  fb.stage \in {"lower", "upper"} =>
    /\ 0 <= fb.count /\ 0 <= fb.first /\ fb.first + fb.count <= Len(fb.arr)
    /\ \A i \in 1..fb.first :
         IF fb.stage = "lower" THEN fb.arr[i] < fb.value ELSE fb.arr[i] <= fb.value
    /\ \A i \in (fb.first + fb.count + 1)..Len(fb.arr) :
         IF fb.stage = "lower" THEN fb.arr[i] >= fb.value ELSE fb.arr[i] > fb.value

FindResult ==
  fb.stage = "done" =>
    /\ fb.lb = Cardinality({i \in 1..Len(fb.arr) : fb.arr[i] < fb.value})
    /\ fb.ub = Cardinality({i \in 1..Len(fb.arr) : fb.arr[i] <= fb.value})
    /\ fb.ub - fb.lb = Count(fb.arr, fb.value)
    /\ fb.ub > fb.lb =>
         /\ fb.arr[fb.lb + 1] = fb.value
         /\ \A i \in 1..fb.lb : fb.arr[i] # fb.value
    /\ fb.lb = find_bound(fb.arr, fb.value, TRUE)
    /\ fb.ub = find_bound(fb.arr, fb.value, FALSE)

\* C9: on a sorted array the lower-bound search returns the first position
\* whose element is not less than the value and the upper-bound search the
\* first position whose element is greater (the length if there is none);
\* their difference is the number of equal elements and the lower bound the
\* first of them; each loop iteration shrinks the remaining range, and the
\* search terminates for every array length.
C9_FindBound ==
  /\ [](FindInBounds /\ FindResult)
  /\ [][fb.stage = fb'.stage => fb'.count < fb.count]_fb
  /\ <>(fb.stage = "done")

\* A value found twice in the middle of a full-length array.
C9_Witness ==
  /\ fb.stage = "done" /\ Len(fb.arr) = FindMaxLen
  /\ fb.lb = 1 /\ fb.ub = 3

\* ------------------------------------------------ the wide specification
\* The same program on inputs with more nonzeros than int32_t can count:
\* duplicates of one coordinate, on shapes small enough for 32-bit hashes.

\* The smallest nonzero count that int32_t cannot index.
WideLen == Int32Max + 2
\* A shape on which WideLen duplicates stay below the eager-coalesce threshold.
WideNumel == (WideLen \div MAX_COPIES_PER_THREAD) + 1

WideShapes == {<<0>>, <<1>>, <<WideNumel>>}

\* Column lists on coordinate 0: empty, one column, two equal columns, and
\* WideLen equal columns.
WideIndexChoices(s) ==
  IF s = <<0>>
  THEN {[idx |-> <<>>, coalesced |-> f] : f \in BOOLEAN}
  ELSE {[idx |-> [k \in 1..n |-> <<0>>], coalesced |-> f] : n \in 0..1, f \in BOOLEAN}
       \cup {[idx |-> [k \in 1..n |-> <<0>>], coalesced |-> FALSE] : n \in {2, WideLen}}

\* Calls whose product of nonzero counts is representable in int64_t.
WideCallsOn(s) ==
  {[x |-> MkSparse(s, <<>>, a.idx, a.coalesced, "Char", "x"),
    y |-> MkSparse(s, <<>>, b.idx, b.coalesced, "Char", "y"),
    rdt |-> "Char"] :
     a \in WideIndexChoices(s),
     b \in WideIndexChoices(s)}

InitWide ==
  /\ \E s \in WideShapes : \E c \in WideCallsOn(s) :
       /\ Fits(Nnz(c.x) * Nnz(c.y), Bits64)
       /\ x = c.x /\ y = c.y /\ res = PriorRes(c.rdt)
  /\ \E m \in OpModes : op = m.op /\ is_commutative = m.is_commutative
  /\ pc = "call" /\ run = 1 /\ first_call = NoFirstCall
  /\ NoIntermediates
  /\ hs = HashIdle /\ fb = FindIdle

SpecWide == InitWide /\ [][Next]_vars

\* ------------------------------------------------------------------ C11

\* The number of matches of source nonzero k (1-based) in the probe.
MatchCount(k) == Count(probably_coalesced.indices, source.indices[k])
TotalMatches == SumSeq([k \in 1..Nnz(source) |-> MatchCount(k)])

PlanHasRun == pc \in {"scatter", "done"} \/ (pc = "error" /\ Len(shifted_offset) > 0)

\* C11: the result's nonzero count is the last element of the inclusive prefix
\* sum of the match counts, the total number of matches (0 for an empty
\* source); the output buffers have exactly that many slots; the count is at
\* most source_nnz * probe_nnz <= x.nnz * y.nnz, and every prefix sum fits in
\* the selected offset width.
C11_ResultNnz ==
  PlanHasRun =>
    /\ \A k \in 1..Nnz(source) :
         /\ shifted_offset[k] = SumSeq([j \in 1..k |-> MatchCount(j)])
         /\ Fits(SumSeq([j \in 1..k |-> MatchCount(j)]), offset_bits)
    /\ intersection_nnz = TotalMatches
    /\ Nnz(source) = 0 => intersection_nnz = 0
    /\ TotalMatches <= Nnz(source) * Nnz(probably_coalesced)
    /\ Nnz(source) * Nnz(probably_coalesced) <= Nnz(x) * Nnz(y)
    /\ pc # "error" =>
         /\ Len(selected_source) = intersection_nnz
         /\ Len(selected_probably_coalesced) = intersection_nnz
         /\ Len(selected_source_sparse_indices) = intersection_nnz
    /\ pc = "done" => Nnz(res) = intersection_nnz

\* ------------------------------------------------------------------ C12

RolesChosen == probably_coalesced # NoTensor

\* The candidate probe of the stated rule, coalesced when it is uncoalesced and
\* its nonzero count over the product of its sparse sizes exceeds the
\* threshold; a product of 0 leaves the quotient undefined, and either is
\* accepted.
RuleProbes(cand) ==
  IF Prod(SparseSizes(cand)) = 0 THEN {cand, coalesce(cand)}
  ELSE IF ~cand.coalesced
          /\ Nnz(cand) \div Prod(SparseSizes(cand)) > MAX_COPIES_PER_THREAD
       THEN {coalesce(cand)}
       ELSE {cand}

\* C12: the role selector yields a probe and a source without faulting; if
\* exactly one of the two tensors is coalesced it is the probe and the other
\* the source; otherwise the one with the larger nonzero count is the
\* candidate probe, coalesced exactly when it is uncoalesced and its nonzero
\* count over the product of its sparse sizes exceeds 50, and the other is
\* the source.
C12_RoleRule ==
  /\ pc # "fault"
  /\ RolesChosen =>
       IF XUsed.coalesced # YUsed.coalesced
       THEN /\ probably_coalesced = (IF XUsed.coalesced THEN XUsed ELSE YUsed)
            /\ source = (IF XUsed.coalesced THEN YUsed ELSE XUsed)
            /\ probe_is_x = XUsed.coalesced
       ELSE /\ probably_coalesced
                 \in RuleProbes(IF Nnz(XUsed) >= Nnz(YUsed) THEN XUsed ELSE YUsed)
            /\ source = (IF Nnz(XUsed) >= Nnz(YUsed) THEN YUsed ELSE XUsed)
            /\ probe_is_x = (Nnz(XUsed) >= Nnz(YUsed))

\* ------------------------------------------------------------------ C13

\* Every input flagged coalesced has strictly increasing coordinates.
InputFlagsSound ==
  /\ x.coalesced => StrictlySorted(x.indices)
  /\ y.coalesced => StrictlySorted(y.indices)

\* C13: when a successful call flags the result coalesced, the result's
\* coordinates are strictly increasing in lexicographic order: sorted and
\* pairwise distinct.
C13_ReallyCoalesced ==
  (pc = "done" /\ InputFlagsSound /\ res.coalesced) =>
    /\ StrictlySorted(res.indices)
    /\ \A i, j \in 1..Nnz(res) : i < j => LexLess(res.indices[i], res.indices[j])

\* Unsorted arguments with a duplicate-free two-row result flagged coalesced.
C13_Witness ==
  /\ pc = "done" /\ res.coalesced /\ Nnz(res) = 2
  /\ ~StrictlySorted(x.indices) /\ ~StrictlySorted(y.indices)

\* ------------------------------------------------------------------ C14

JoinHasRun ==
  /\ pc \in {"plan", "scatter", "done", "error"}
  /\ RolesChosen /\ Len(intersection_count) = Nnz(source)

\* The match count and first-match offset of source nonzero nnz_idx before
\* they are stored.
JoinTaskExact(nnz_idx) ==
  LET hash == HashOf(source.indices[nnz_idx + 1], hash_coeffs, hash_bits)
      lb == find_bound(sorted_hash, hash, TRUE)
      ub == find_bound(sorted_hash, hash, FALSE)
  IN [count |-> ub - lb, first_idx |-> lb]

\* The values of the hash-width buffers of the join fit.
CountsFit ==
  JoinHasRun =>
    \A k \in 1..Nnz(source) :
      /\ Fits(JoinTaskExact(k - 1).count, hash_bits)
      /\ Fits(JoinTaskExact(k - 1).first_idx, hash_bits)
      /\ intersection_count[k] = JoinTaskExact(k - 1).count
      /\ intersection_first_idx[k] = JoinTaskExact(k - 1).first_idx

\* The values of the hash-width buffers of the gather stage fit.
SelectedFit ==
  \A w \in writes :
    /\ Fits(w.task, hash_bits)
    /\ (w.slot >= 0 /\ w.slot < Len(selected_source)) =>
         /\ selected_source[w.slot + 1] = w.task
         /\ selected_probably_coalesced[w.slot + 1] >= 0
         /\ selected_probably_coalesced[w.slot + 1] < Nnz(probably_coalesced)

\* C14: every value stored in a buffer of the hash width is representable in
\* it: the match count and first-match offset of every source nonzero, and
\* the selected source and probe indices.
C14_HashWidthValues == CountsFit /\ SelectedFit

====
